---------------------------- MODULE Spec2Model ----------------------------
(***************************************************************************)
(* Model of the low-fi-station API server (src/server.js): one route,      *)
(* GET /albums, which lists the keys under a prefix of an S3 bucket,       *)
(* groups them into albums and tracks by parsing the key names, shuffles   *)
(* the order value of the tracks and answers with a JSON document.         *)
(*                                                                         *)
(* JavaScript strings are TLA+ strings; the string functions of the        *)
(* handler (replace, split, includes, trim, match, parseInt, toLowerCase,  *)
(* template literals) are operators that work character by character.      *)
(***************************************************************************)
EXTENDS Integers, Sequences, FiniteSets, TLC

(***************************************************************************)
(* Bounds of the model.                                                    *)
(***************************************************************************)
\* number of GET /albums requests the clients send
NumRequests == 3
\* largest number of keys in one listing of the parsing specification
MaxKeys == 3
\* largest number of milliseconds that pass during one forEach loop
MaxClock == 1

(***************************************************************************)
(* Configuration (process.env and literals of server.js).                  *)
(***************************************************************************)
S3_FOLDER_PATH == "p/"
S3_BUCKET_NAME == "b"
CLOUDFRONT_DOMAIN == "d/"
\* Math.floor(Math.random() * 10000)
RandomRange == 10000
\* params.MaxKeys of the listObjectsV2 call
ListMaxKeys == 1000

\* JavaScript null and undefined
Null == "null"
Undefined == "undefined"

(***************************************************************************)
(* JavaScript string functions.                                            *)
(***************************************************************************)
CharAt(s, i) == SubSeq(s, i, i)

\* the rest of s from position i on
From(s, i) == SubSeq(s, i, Len(s))

Digits == <<"0", "1", "2", "3", "4", "5", "6", "7", "8", "9">>

IsDigit(c) == \E d \in 1..10 : Digits[d] = c

DigitValue(c) == (CHOOSE d \in 1..10 : Digits[d] = c) - 1

\* the characters /\s/ matches, of those a storage key may hold
IsSpace(c) == c \in {" ", "\t"}

UpperCase == <<"A", "B", "C", "D", "E", "F", "G", "H", "I", "J", "K", "L", "M",
               "N", "O", "P", "Q", "R", "S", "T", "U", "V", "W", "X", "Y", "Z">>

LowerCase == <<"a", "b", "c", "d", "e", "f", "g", "h", "i", "j", "k", "l", "m",
               "n", "o", "p", "q", "r", "s", "t", "u", "v", "w", "x", "y", "z">>

LowerChar(c) ==
  IF \E i \in 1..26 : UpperCase[i] = c
  THEN LowerCase[CHOOSE i \in 1..26 : UpperCase[i] = c]
  ELSE c

RECURSIVE ToLowerCase(_)
ToLowerCase(s) ==
  IF Len(s) = 0 THEN "" ELSE LowerChar(CharAt(s, 1)) \o ToLowerCase(From(s, 2))

\* the least and the greatest element of a set of positions, 0 when it is empty
FirstOf(S) == IF S = {} THEN 0 ELSE CHOOSE i \in S : \A j \in S : i <= j

LastOf(S) == IF S = {} THEN 0 ELSE CHOOSE i \in S : \A j \in S : j <= i

\* String.prototype.indexOf, 1-based; 0 when pat does not occur
IndexOf(s, pat) ==
  FirstOf({i \in 1..(Len(s) - Len(pat) + 1) : SubSeq(s, i, i + Len(pat) - 1) = pat})

Includes(s, pat) == IndexOf(s, pat) # 0

\* the occurrence of a pattern of length n at position i replaced by rep
ReplaceAt(s, i, n, rep) ==
  IF i = 0 THEN s ELSE SubSeq(s, 1, i - 1) \o rep \o From(s, i + n)

\* String.prototype.replace with a string pattern: the first occurrence only
ReplaceFirst(s, pat, rep) == ReplaceAt(s, IndexOf(s, pat), Len(pat), rep)

\* String.prototype.split with a non-empty string separator
RECURSIVE Split(_, _)
SplitAt(s, sep, i) ==
  IF i = 0 THEN <<s>>
  ELSE <<SubSeq(s, 1, i - 1)>> \o Split(From(s, i + Len(sep)), sep)

Split(s, sep) == SplitAt(s, sep, IndexOf(s, sep))

RECURSIVE TrimStart(_)
TrimStart(s) ==
  IF Len(s) > 0 /\ IsSpace(CharAt(s, 1)) THEN TrimStart(From(s, 2)) ELSE s

RECURSIVE TrimEnd(_)
TrimEnd(s) ==
  IF Len(s) > 0 /\ IsSpace(CharAt(s, Len(s))) THEN TrimEnd(SubSeq(s, 1, Len(s) - 1)) ELSE s

Trim(s) == TrimEnd(TrimStart(s))

\* parseInt(s, 10) of a string of decimal digits
RECURSIVE ParseInt(_)
ParseInt(s) ==
  IF Len(s) = 0 THEN 0
  ELSE 10 * ParseInt(SubSeq(s, 1, Len(s) - 1)) + DigitValue(CharAt(s, Len(s)))

\* a number in a template literal
RECURSIVE NumberToString(_)
NumberToString(n) ==
  IF n < 10 THEN Digits[n + 1]
  ELSE NumberToString(n \div 10) \o Digits[(n % 10) + 1]

\* s.replace(/\s/g, '-')
RECURSIVE ReplaceSpaces(_)
ReplaceSpaces(s) ==
  IF Len(s) = 0 THEN ""
  ELSE (IF IsSpace(CharAt(s, 1)) THEN "-" ELSE CharAt(s, 1)) \o ReplaceSpaces(From(s, 2))

\* length of the longest run of digits s starts with
RECURSIVE LeadingDigits(_)
LeadingDigits(s) ==
  IF Len(s) > 0 /\ IsDigit(CharAt(s, 1)) THEN 1 + LeadingDigits(From(s, 2)) ELSE 0

(***************************************************************************)
(* trackFileName.match(/^(\d+)\s*-\s*(.+)/): the two groups, <<>> when     *)
(* there is no match.                                                      *)
(***************************************************************************)
\* (.+) behind the second \s*, which is greedy but gives its last character
\* back when nothing but white space follows the hyphen
GroupTwo(rest, afterDash) ==
  IF Len(rest) > 0 THEN rest ELSE CharAt(afterDash, Len(afterDash))

\* -\s*(.+) at the start of afterNum
MatchHyphen(digits, afterNum) ==
  IF Len(afterNum) < 2 \/ CharAt(afterNum, 1) # "-" THEN <<>>
  ELSE <<digits, GroupTwo(TrimStart(From(afterNum, 2)), From(afterNum, 2))>>

\* ^(\d+)\s* with nd leading digits
MatchNumber(fileName, nd) ==
  IF nd = 0 THEN <<>>
  ELSE MatchHyphen(SubSeq(fileName, 1, nd), TrimStart(From(fileName, nd + 1)))

TrackMatch(fileName) == MatchNumber(fileName, LeadingDigits(fileName))

\* name.replace(/\.[^/.]+$/, ""), p the position of the last "."
StripFrom(name, p) ==
  IF p = 0 \/ p = Len(name) \/ \E i \in (p + 1)..Len(name) : CharAt(name, i) = "/"
  THEN name
  ELSE SubSeq(name, 1, p - 1)

RemoveExtension(name) == StripFrom(name, LastOf({i \in 1..Len(name) : CharAt(name, i) = "."}))

(***************************************************************************)
(* The parsing of one storage key (lines 105-139 of the handler).          *)
(***************************************************************************)
\* `${process.env.CLOUDFRONT_DOMAIN}${item.Key}`
ResolveUrl(key) == CLOUDFRONT_DOMAIN \o key

\* item.Key.replace(S3_FOLDER_PATH, '').split('/')
PathParts(key) == Split(ReplaceFirst(key, S3_FOLDER_PATH, ""), "/")

\* lines 123-124
SplitNames(albumParts) ==
  [albumName |-> Trim(albumParts[1]), artist |-> Trim(albumParts[2])]

\* lines 117-125: albumName and artist
AlbumNameAndArtist(albumInfo) ==
  IF Includes(albumInfo, " - ")
  THEN SplitNames(Split(albumInfo, " - "))
  ELSE [albumName |-> albumInfo, artist |-> "Unknown Artist"]

\* lines 127-139: trackNumber and trackName, from the result of the match
NumberAndName(trackFileName, trackMatch) ==
  [trackNumber |-> IF trackMatch # <<>> THEN ParseInt(trackMatch[1]) ELSE 0,
   trackName   |-> RemoveExtension(IF trackMatch # <<>>
                                   THEN Trim(trackMatch[2])
                                   ELSE trackFileName)]

TrackNumberAndName(trackFileName) ==
  NumberAndName(trackFileName, TrackMatch(trackFileName))

\* lines 152-153, on the lower-cased file name
HasCoverMark(lower) == \E pat \in {"cover", ".jpg", ".jpeg", ".png"} : Includes(lower, pat)

IsCover(trackFileName) == HasCoverMark(ToLowerCase(trackFileName))

\* `${timestamp}-${random}-${albumInfo.replace(/\s/g, '-')}-${trackNumber}`;
\* idInfo is albumInfo.replace(/\s/g, '-')
UniqueId(timestamp, random, idInfo, trackNumber) ==
  NumberToString(timestamp) \o "-" \o NumberToString(random) \o "-"
    \o idInfo \o "-" \o NumberToString(trackNumber)

\* the values the callback derives from a key in an album subfolder
ParsedItem(key, albumInfo, trackFileName, names, track) ==
  [skipped       |-> FALSE,
   albumInfo     |-> albumInfo,
   trackFileName |-> trackFileName,
   albumName     |-> names.albumName,
   artist        |-> names.artist,
   trackNumber   |-> track.trackNumber,
   trackName     |-> track.trackName,
   isCover       |-> IsCover(trackFileName),
   url           |-> ResolveUrl(key),
   idInfo        |-> ReplaceSpaces(albumInfo)]

\* lines 105 and 112: the two early returns of the callback
ParseParts(key, parts) ==
  IF key = S3_FOLDER_PATH \/ Len(parts) < 2 THEN [skipped |-> TRUE]
  ELSE ParsedItem(key, parts[1], parts[2],
                  AlbumNameAndArtist(parts[1]), TrackNumberAndName(parts[2]))

\* what the forEach callback computes from item.Key before it touches the
\* albumMap (lines 105-139, 152-153, 161, 167)
ParseKey(key) == ParseParts(key, PathParts(key))

(***************************************************************************)
(* Inputs: the errors and the results of s3.listObjectsV2.                 *)
(***************************************************************************)
S3Errors ==
  {[code |-> c, message |-> "listing failed"] :
     c \in {"NoSuchBucket", "AccessDenied", "CredentialsError", "NetworkingError", "SlowDown"}}

\* the keys the bucket may hold under the prefix
KeyPool ==
  {"p/",
   "p/A - B - C/02-x.m",
   "p/A - B - C/y.m",
   "p/A - B - C/0 - z.m",
   "p/A - B - C/cover",
   "p/A - B - C/1-c.PNG",
   "p/7/b.jpg",
   "p/__proto__/cover",
   "p/coverUrl/k.png"}

\* every listing of at most MaxKeys different keys of the pool, in any order
AllListings ==
  {l \in UNION {[1..n -> KeyPool] : n \in 0..MaxKeys} :
     \A i, j \in 1..Len(l) : i # j => l[i] # l[j]}

\* a result without Contents, and one for every listing
ParseData == {[KeyCount |-> 0]} \cup {[Contents |-> l] : l \in AllListings}

\* the results the concurrent requests of the server receive
ServerData ==
  {[KeyCount |-> 0],
   [Contents |-> <<>>],
   [Contents |-> <<"p/__proto__/cover.jpg">>],
   [Contents |-> <<"p/coverUrl/01 - a.mp3">>]}

\* every key of the model
KnownKeys ==
  KeyPool \cup {"p/__proto__/cover.jpg", "p/coverUrl/01 - a.mp3"}

\* ParseKey, tabulated
KeyInfo == [k \in KnownKeys |-> ParseKey(k)]

(***************************************************************************)
(* albumMap: a JavaScript object used as a map.  It is the sequence of its *)
(* own properties in the order of their creation, each [key, value]; a     *)
(* read of a key it does not own goes to Object.prototype.                 *)
(***************************************************************************)
HasOwn(m, k) == \E i \in 1..Len(m) : m[i].key = k

OwnIndex(m, k) == CHOOSE i \in 1..Len(m) : m[i].key = k

\* the properties every Object.prototype has
ObjectPrototypeProps ==
  {"__proto__", "constructor", "toString", "toLocaleString", "valueOf",
   "hasOwnProperty", "isPrototypeOf", "propertyIsEnumerable",
   "__defineGetter__", "__defineSetter__", "__lookupGetter__", "__lookupSetter__"}

\* What albumMap[k] is.  proto is Object.prototype.coverUrl, the only
\* property the handler can add to Object.prototype.
Lookup(m, k, proto) ==
  IF HasOwn(m, k) THEN "album"
  ELSE IF k = "__proto__" THEN "prototype"
  ELSE IF k \in ObjectPrototypeProps THEN "builtin"
  ELSE IF k = "coverUrl" /\ proto # Undefined THEN "string"
  ELSE "undefined"

\* lines 143-148
NewAlbum(albumName, artist) ==
  [albumName |-> albumName,
   artist    |-> artist,
   tracks    |-> <<>>,
   coverUrl  |-> Null]

SetCoverFirstWins(album, url) ==
  IF album.coverUrl = Null THEN [album EXCEPT !.coverUrl = url] ELSE album

\* albumMap[albumInfo].coverUrl = url, on an album
SetCover(album, url) == [album EXCEPT !.coverUrl = url]

\* albumMap[albumInfo].tracks.push(track), on an album
PushTrack(album, track) == [album EXCEPT !.tracks = Append(@, track)]

\* lines 164-169: the track object
NewTrack(item, timestamp, random) ==
  [trackId |-> UniqueId(timestamp, random, item.idInfo, item.trackNumber),
   name    |-> item.trackName,
   url     |-> item.url,
   order   |-> item.trackNumber]

(***************************************************************************)
(* One call of the forEach callback (lines 103-170).  st is the state of   *)
(* the loop: the albumMap, Object.prototype.coverUrl (proto), whether a    *)
(* TypeError was thrown, and the number of track ids generated so far; ts  *)
(* and rnd are the values the calls of Date.now() and Math.random() return.*)
(***************************************************************************)
\* lines 142-149: create the album entry if albumMap[albumInfo] is falsy
EnsureAlbum(m, item, proto) ==
  IF Lookup(m, item.albumInfo, proto) = "undefined"
  THEN Append(m, [key |-> item.albumInfo, value |-> NewAlbum(item.albumName, item.artist)])
  ELSE m

\* line 154, then return; target is what albumMap[albumInfo] is
StoreCover(st, item, target) ==
  CASE target = "album" ->
         [st EXCEPT !.albumMap[OwnIndex(st.albumMap, item.albumInfo)].value =
                      SetCover(@, item.url)]
    [] target = "prototype" ->
         \* the assignment lands on Object.prototype
         [st EXCEPT !.proto = item.url]
    [] OTHER ->
         \* a property of a built-in function, or of a primitive string
         \* (ignored outside strict mode): nothing the handler reads
         st

\* lines 159-169
StoreTrack(st, item, target, ts, rnd) ==
  IF target = "album"
  THEN [st EXCEPT !.albumMap[OwnIndex(st.albumMap, item.albumInfo)].value =
                    PushTrack(@, NewTrack(item, ts[st.ids + 1], rnd[st.ids + 1])),
                  !.ids = @ + 1]
  ELSE \* albumMap[albumInfo].tracks is undefined: push throws a TypeError
       [st EXCEPT !.ids = @ + 1, !.thrown = TRUE]

\* lines 151-169, st holding the albumMap after line 149
StoreItem(st, item, target, ts, rnd) ==
  IF item.isCover THEN StoreCover(st, item, target)
  ELSE StoreTrack(st, item, target, ts, rnd)

\* the callback on a parsed key
ProcessParsed(st, item, m, ts, rnd) ==
  StoreItem([st EXCEPT !.albumMap = m], item, Lookup(m, item.albumInfo, st.proto), ts, rnd)

ProcessItem(st, item, ts, rnd) ==
  IF st.thrown \/ item.skipped THEN st
  ELSE ProcessParsed(st, item, EnsureAlbum(st.albumMap, item, st.proto), ts, rnd)

\* data.Contents.forEach(...)
RECURSIVE ForEachItem(_, _, _, _)
ForEachItem(contents, st, ts, rnd) ==
  IF Len(contents) = 0 THEN st
  ELSE ForEachItem(Tail(contents), ProcessItem(st, KeyInfo[Head(contents)], ts, rnd), ts, rnd)

\* the callback reaches Date.now() for this key
IsTrackItem(item) == ~item.skipped /\ ~item.isCover

NumTrackKeys(contents) ==
  Cardinality({i \in 1..Len(contents) : IsTrackItem(KeyInfo[contents[i]])})

(***************************************************************************)
(* Object.values(albumMap): own properties whose key is an array index     *)
(* ("0", "7", "10": decimal, no leading zero, below 2^32 - 1) come first,  *)
(* in ascending numeric order, then the other keys in creation order.      *)
(* Every name of at most nine digits is below 2^32 - 1; the ten-digit      *)
(* indices are beyond the integers of TLC and no key of the model has one. *)
(***************************************************************************)
IsArrayIndex(k) ==
  /\ Len(k) > 0
  /\ \A i \in 1..Len(k) : IsDigit(CharAt(k, i))
  /\ (Len(k) = 1 \/ CharAt(k, 1) # "0")
  /\ Len(k) <= 9

\* the position in S of the numerically least key
LeastIndexKey(m, S) ==
  CHOOSE x \in S : \A y \in S : ParseInt(m[x].key) <= ParseInt(m[y].key)

RECURSIVE AscendingIndexKeys(_, _)
AscendingFrom(m, S, x) == <<x>> \o AscendingIndexKeys(m, S \ {x})

AscendingIndexKeys(m, S) ==
  IF S = {} THEN <<>> ELSE AscendingFrom(m, S, LeastIndexKey(m, S))

\* the positions of the entries of m whose key is, or is not, an array index
IndexKeyed(m, wanted) == {i \in 1..Len(m) : IsArrayIndex(m[i].key) = wanted}

\* the positions of the entries of m, in the order JavaScript enumerates them
OwnPropertyOrder(m) ==
  AscendingIndexKeys(m, IndexKeyed(m, TRUE))
    \o SelectSeq([i \in 1..Len(m) |-> i], LAMBDA i : i \in IndexKeyed(m, FALSE))

ObjectValues(m) == [n \in 1..Len(m) |-> m[OwnPropertyOrder(m)[n]].value]

ObjectKeys(m) == [n \in 1..Len(m) |-> m[OwnPropertyOrder(m)[n]].key]

(***************************************************************************)
(* The presentation of one album (lines 173-195).                          *)
(***************************************************************************)
\* t put behind the first k tracks
InsertAt(sorted, t, k) == SubSeq(sorted, 1, k) \o <<t>> \o SubSeq(sorted, k + 1, Len(sorted))

InsertBeforeEqual(sorted, t) ==
  InsertAt(sorted, t, Cardinality({i \in 1..Len(sorted) : sorted[i].order < t.order}))

\* t goes behind every track whose number is not larger
InsertTrack(sorted, t) ==
  InsertAt(sorted, t, Cardinality({i \in 1..Len(sorted) : sorted[i].order <= t.order}))

RECURSIVE SortTracksUnstable(_)
SortTracksUnstable(tracks) ==
  IF Len(tracks) = 0 THEN <<>>
  ELSE InsertBeforeEqual(SortTracksUnstable(SubSeq(tracks, 1, Len(tracks) - 1)),
                         tracks[Len(tracks)])

\* album.tracks.sort((a, b) => a.order - b.order); Array.prototype.sort is stable
RECURSIVE SortTracks(_)
SortTracks(tracks) ==
  IF Len(tracks) = 0 THEN <<>>
  ELSE InsertTrack(SortTracks(SubSeq(tracks, 1, Len(tracks) - 1)), tracks[Len(tracks)])

\* Array.from({ length: trackCount }, (_, i) => i)
AvailablePositions(trackCount) == [i \in 1..trackCount |-> i - 1]

\* [a[i], a[j]] = [a[j], a[i]], positions counted from 0
Swap(a, i, j) == [a EXCEPT ![i + 1] = a[j + 1], ![j + 1] = a[i + 1]]

RECURSIVE FisherYatesOverwrite(_, _, _)
FisherYatesOverwrite(a, i, js) ==
  IF i <= 0 THEN a
  ELSE FisherYatesOverwrite([a EXCEPT ![i + 1] = a[js[i] + 1]], i - 1, js)

\* for (let i = a.length - 1; i > 0; i--): js[i] is the j drawn at step i
RECURSIVE FisherYates(_, _, _)
FisherYates(a, i, js) ==
  IF i <= 0 THEN a
  ELSE FisherYates(Swap(a, i, js[i]), i - 1, js)

\* the draws one shuffle of n positions may make: js[i] in 0..i
ShuffleDraws(n) == {js \in [1..(n - 1) -> 0..(n - 1)] : \A i \in 1..(n - 1) : js[i] <= i}

\* lines 190-192
AssignPositions(album, sorted, positions) ==
  [album EXCEPT !.tracks = [i \in 1..Len(sorted) |-> [sorted[i] EXCEPT !.order = positions[i]]]]

\* lines 178-187 on the sorted tracks
ShuffleAlbum(album, sorted, js) ==
  AssignPositions(album, sorted,
                  FisherYates(AvailablePositions(Len(sorted)), Len(sorted) - 1, js))

\* the callback of Object.values(albumMap).map
PresentAlbum(album, js) == ShuffleAlbum(album, SortTracks(album.tracks), js)

\* the albumMap after the map: its album objects are changed in place
PresentAll(m, q) ==
  [i \in 1..Len(m) |-> [key |-> m[i].key, value |-> PresentAlbum(m[i].value, q[i])]]

(***************************************************************************)
(* Responses.                                                              *)
(***************************************************************************)
\* checkAwsCredentials, when the credentials are missing
NotConfigured ==
  [status |-> 500,
   body   |-> [success |-> FALSE,
               error   |-> "AWS credentials are not properly configured. Check server logs for details."]]

HandleS3ErrorSwapped(err) ==
  IF err.code = "NoSuchBucket"
  THEN [status |-> 403,
        body |-> [success |-> FALSE,
                  error |-> "Bucket '" \o S3_BUCKET_NAME \o "' does not exist."]]
  ELSE [status |-> 500, body |-> [success |-> FALSE, error |-> err.message]]

HandleS3Error(err) ==
  IF err.code = "NoSuchBucket"
  THEN [status |-> 404,
        body |-> [success |-> FALSE,
                  error |-> "Bucket '" \o S3_BUCKET_NAME \o "' does not exist."]]
  ELSE IF err.code = "AccessDenied"
  THEN [status |-> 403,
        body |-> [success |-> FALSE,
                  error |-> "Access denied to bucket '" \o S3_BUCKET_NAME
                              \o "'. Check your IAM permissions."]]
  ELSE IF err.code = "CredentialsError"
  THEN [status |-> 401,
        body |-> [success |-> FALSE,
                  error |-> "Invalid AWS credentials. Please check your Access Key and Secret Access Key."]]
  ELSE IF err.code = "NetworkingError"
  THEN [status |-> 503,
        body |-> [success |-> FALSE,
                  error |-> "Network error while connecting to AWS. Please check your internet connection."]]
  ELSE IF err.code = Undefined
  THEN \* JSON.stringify leaves an undefined code out
       [status |-> 500, body |-> [success |-> FALSE, error |-> err.message]]
  ELSE [status |-> 500,
        body |-> [success |-> FALSE, error |-> err.message, code |-> err.code]]

\* res.json({ success: true, albums: formattedAlbums, count: formattedAlbums.length })
SuccessResponse(formattedAlbums) ==
  [status |-> 200,
   body   |-> [success |-> TRUE, albums |-> formattedAlbums, count |-> Len(formattedAlbums)]]

\* the TypeError of reading a property of undefined
TypeError(prop) ==
  [code |-> Undefined,
   message |-> "Cannot read properties of undefined (reading '" \o prop \o "')"]

(***************************************************************************)
(* Inputs: the values of Date.now() and of Math.random().                  *)
(***************************************************************************)
\* Math.floor(Math.random() * 10000): the two ends of the range
RandomDraws == {0, RandomRange - 1}

\* the values of k successive calls of Date.now(), in milliseconds since
\* the first of them
Timestamps(k) ==
  {ts \in [1..k -> 0..MaxClock] :
     /\ k > 0 => ts[1] = 0
     /\ \A i \in 1..(k - 1) : ts[i] <= ts[i + 1]}

\* the values the k calls of Date.now() and of Math.random() of one forEach return
IdDraws(k) == Timestamps(k) \X [1..k -> RandomDraws]

\* the state of the forEach loop before its first item
LoopStart(proto) == [albumMap |-> <<>>, proto |-> proto, thrown |-> FALSE, ids |-> 0]

\* the draws of the shuffles of the albums of m, one ShuffleDraws per album
AlbumShuffles(m) ==
  {q \in [1..Len(m) -> UNION {ShuffleDraws(Len(m[i].value.tracks)) : i \in 1..Len(m)}] :
     \A i \in 1..Len(m) : q[i] \in ShuffleDraws(Len(m[i].value.tracks))}

(***************************************************************************)
(* The server.                                                             *)
(***************************************************************************)
VARIABLES
  credentialsVerified,  \* the const of line 41
  objectPrototype,      \* Object.prototype.coverUrl, Undefined unless assigned
  pc,                   \* per request: "idle", "awaiting", "resolved", "done"
  listCalls,            \* per request: calls of s3.listObjectsV2 issued
  listResult,           \* per request: what the awaited call returned or threw
  albumMap,             \* per request: the albumMap of the handler
  sent                  \* per request: the responses written, in order

vars == <<credentialsVerified, objectPrototype, pc, listCalls, listResult, albumMap, sent>>

Requests == 1..NumRequests

Pending == [kind |-> "pending"]

\* verifyAwsCredentials() runs once, when the process starts
Init ==
  /\ credentialsVerified \in BOOLEAN
  /\ objectPrototype = Undefined
  /\ pc = [r \in Requests |-> "idle"]
  /\ listCalls = [r \in Requests |-> 0]
  /\ listResult = [r \in Requests |-> Pending]
  /\ albumMap = [r \in Requests |-> <<>>]
  /\ sent = [r \in Requests |-> <<>>]

ReceiveUnchecked(r) ==
  /\ pc[r] = "idle"
  /\ pc' = [pc EXCEPT ![r] = "awaiting"]
  /\ listCalls' = [listCalls EXCEPT ![r] = @ + 1]
  /\ UNCHANGED <<credentialsVerified, objectPrototype, listResult, albumMap, sent>>

\* GET /albums arrives: checkAwsCredentials, then the handler up to its await
Receive(r) ==
  /\ pc[r] = "idle"
  /\ IF ~credentialsVerified
     THEN /\ sent' = [sent EXCEPT ![r] = Append(@, NotConfigured)]
          /\ pc' = [pc EXCEPT ![r] = "done"]
          /\ UNCHANGED listCalls
     ELSE /\ pc' = [pc EXCEPT ![r] = "awaiting"]
          /\ listCalls' = [listCalls EXCEPT ![r] = @ + 1]
          /\ UNCHANGED sent
  /\ UNCHANGED <<credentialsVerified, objectPrototype, listResult, albumMap>>

\* the awaited promise rejects: catch, handleS3Error
ListObjectsFail(r, err) ==
  /\ pc[r] = "awaiting"
  /\ listResult' = [listResult EXCEPT ![r] = [kind |-> "error", err |-> err]]
  /\ sent' = [sent EXCEPT ![r] = Append(@, HandleS3Error(err))]
  /\ pc' = [pc EXCEPT ![r] = "done"]
  /\ UNCHANGED <<credentialsVerified, objectPrototype, listCalls, albumMap>>

\* the awaited promise resolves with data
ListObjectsOk(r, data) ==
  /\ pc[r] = "awaiting"
  /\ "Contents" \in DOMAIN data => Len(data.Contents) <= ListMaxKeys
  /\ listResult' = [listResult EXCEPT ![r] = [kind |-> "data", data |-> data]]
  /\ pc' = [pc EXCEPT ![r] = "resolved"]
  /\ UNCHANGED <<credentialsVerified, objectPrototype, listCalls, albumMap, sent>>

\* the catch block: handleS3Error(err, res)
Catch(r, err) == sent' = [sent EXCEPT ![r] = Append(@, HandleS3Error(err))]

\* lines 197-201, presented being the albumMap after lines 173-195
Reply(r, presented) ==
  /\ albumMap' = [albumMap EXCEPT ![r] = presented]
  /\ sent' = [sent EXCEPT ![r] = Append(@, SuccessResponse(ObjectValues(presented)))]

\* lines 171-205, st being the state the forEach ended in
Finish(r, st) ==
  /\ objectPrototype' = st.proto
  /\ IF st.thrown
     THEN \* line 164: tracks is undefined, push throws
          Catch(r, TypeError("push")) /\ UNCHANGED albumMap
     ELSE \E q \in AlbumShuffles(st.albumMap) : Reply(r, PresentAll(st.albumMap, q))

\* lines 98-205 for a result that has Contents
Process(r, contents) ==
  \E draws \in IdDraws(NumTrackKeys(contents)) :
    Finish(r, ForEachItem(contents, LoopStart(objectPrototype), draws[1], draws[2]))

\* the handler resumes after its await and runs to its response without
\* another suspension (lines 98-205)
Resume(r) ==
  /\ pc[r] = "resolved"
  /\ pc' = [pc EXCEPT ![r] = "done"]
  /\ IF "Contents" \notin DOMAIN listResult[r].data
     THEN \* line 98: data.Contents.length throws
          Catch(r, TypeError("length")) /\ UNCHANGED <<objectPrototype, albumMap>>
     ELSE Process(r, listResult[r].data.Contents)
  /\ UNCHANGED <<credentialsVerified, listCalls, listResult>>

\* the server with its concurrent requests
Next ==
  \E r \in Requests :
    \/ Receive(r)
    \/ \E err \in S3Errors : ListObjectsFail(r, err)
    \/ \E data \in ServerData : ListObjectsOk(r, data)
    \/ Resume(r)

Spec == Init /\ [][Next]_vars

\* one request, over every listing of the key pool
NextParse ==
  \/ Receive(1)
  \/ \E err \in S3Errors : ListObjectsFail(1, err)
  \/ \E data \in ParseData : ListObjectsOk(1, data)
  \/ Resume(1)

SpecParse == Init /\ [][NextParse]_vars

(***************************************************************************)
(* Properties.  Helper definitions first.                                  *)
(***************************************************************************)
\* request r was answered with success: true
Succeeded(r) == pc[r] = "done" /\ Len(sent[r]) = 1 /\ sent[r][1].body.success

\* the albums of the response of request r
AlbumsOf(r) == sent[r][1].body.albums

\* the listing request r received
ListingOf(r) == listResult[r].data.Contents

\* the positions in listing l of the keys in subfolder albumInfo that are
\* classified as cover (wanted) or are not
FolderKeys(l, albumInfo, wanted) ==
  {i \in 1..Len(l) : /\ ~KeyInfo[l[i]].skipped
                     /\ KeyInfo[l[i]].albumInfo = albumInfo
                     /\ KeyInfo[l[i]].isCover = wanted}

\* the position in l of the key a track url was resolved from
KeyPosition(l, url) == CHOOSE i \in 1..Len(l) : ResolveUrl(l[i]) = url

\* a response without the request-scoped trackId and order of its tracks
Stripped(resp) ==
  IF resp.body.success
  THEN [status |-> resp.status,
        count  |-> resp.body.count,
        albums |-> [a \in 1..Len(resp.body.albums) |->
                      [albumName |-> resp.body.albums[a].albumName,
                       artist    |-> resp.body.albums[a].artist,
                       coverUrl  |-> resp.body.albums[a].coverUrl,
                       tracks    |-> [t \in 1..Len(resp.body.albums[a].tracks) |->
                                        [name |-> resp.body.albums[a].tracks[t].name,
                                         url  |-> resp.body.albums[a].tracks[t].url]]]]]
  ELSE [status |-> resp.status, body |-> resp.body]

\* C1: in every successful response the order values of the N tracks of an
\* album are exactly 0..N-1, each used once, whatever the draws were.
C1_OrderIsPermutation ==
  \A r \in Requests :
    Succeeded(r) =>
      \A a \in 1..Len(AlbumsOf(r)) :
        LET tracks == AlbumsOf(r)[a].tracks
        IN /\ {tracks[i].order : i \in 1..Len(tracks)} = 0..(Len(tracks) - 1)
           /\ \A i, j \in 1..Len(tracks) : i # j => tracks[i].order # tracks[j].order

\* C1 witness: an album of three tracks, two of them with the parsed number
\* 0, was shuffled so that its first track has the order 2; another album
\* of the same response has no track.
C1_Witness ==
  \E r \in Requests :
    /\ Succeeded(r)
    /\ ListingOf(r) = <<"p/A - B - C/y.m", "p/A - B - C/0 - z.m", "p/A - B - C/02-x.m">>
    /\ Len(AlbumsOf(r)[1].tracks) = 3
    /\ AlbumsOf(r)[1].tracks[1].order = 2

\* C2: no two tracks of one response carry the same trackId.
C2_TrackIdsUnique ==
  \A r \in Requests :
    Succeeded(r) =>
      \A a, b \in 1..Len(AlbumsOf(r)) :
        \A i \in 1..Len(AlbumsOf(r)[a].tracks), j \in 1..Len(AlbumsOf(r)[b].tracks) :
          (a # b \/ i # j) => AlbumsOf(r)[a].tracks[i].trackId # AlbumsOf(r)[b].tracks[j].trackId

\* the status the claim gives for an error code
StatusFor(code) ==
  CASE code = "NoSuchBucket" -> 404
    [] code = "AccessDenied" -> 403
    [] code = "CredentialsError" -> 401
    [] code = "NetworkingError" -> 503
    [] OTHER -> 500

\* C3: a request whose listing call failed with code c has exactly one
\* response, with the status of c, success false, no albums and no count,
\* and issued exactly one listing call.
C3_ListingFailure ==
  \A r \in Requests :
    listResult[r].kind = "error" =>
      /\ Len(sent[r]) = 1
      /\ sent[r][1].status = StatusFor(listResult[r].err.code)
      /\ sent[r][1].body.success = FALSE
      /\ "albums" \notin DOMAIN sent[r][1].body
      /\ "count" \notin DOMAIN sent[r][1].body
      /\ listCalls[r] = 1

\* C3 witness: one request failed with NoSuchBucket, another one with a
\* code the handler has no branch for.
C3_Witness ==
  \E r1, r2 \in Requests :
    /\ pc[r1] = "done" /\ listResult[r1].kind = "error"
    /\ listResult[r1].err.code = "NoSuchBucket"
    /\ pc[r2] = "done" /\ listResult[r2].kind = "error"
    /\ listResult[r2].err.code = "SlowDown"

\* C4: with the credentials missing at the start, no listing call is ever
\* issued and every answered request got status 500 and success false.
C4_NotConfigured ==
  ~credentialsVerified =>
    \A r \in Requests :
      /\ listCalls[r] = 0
      /\ pc[r] \in {"idle", "done"}
      /\ pc[r] = "done" =>
           /\ Len(sent[r]) = 1
           /\ sent[r][1].status = 500
           /\ sent[r][1].body.success = FALSE

\* C4 witness: the credentials are missing and every request was answered.
C4_Witness == ~credentialsVerified /\ \A r \in Requests : pc[r] = "done"

\* C5: a listing that succeeds with no keys, with an empty Contents or with
\* none, is answered {success: true, albums: [], count: 0}.
C5_EmptyListing ==
  \A r \in Requests :
    (/\ pc[r] = "done"
     /\ listResult[r].kind = "data"
     /\ ("Contents" \in DOMAIN listResult[r].data => listResult[r].data.Contents = <<>>))
    => sent[r] = <<[status |-> 200,
                    body |-> [success |-> TRUE, albums |-> <<>>, count |-> 0]]>>

\* C6: the albums of a response are in the order in which their folders
\* were first encountered in the listing, digit-only folder names included.
C6_FirstEncounterOrder ==
  \A r \in Requests :
    Succeeded(r) =>
      LET keys == ObjectKeys(albumMap[r])
          first(k) == FirstOf(FolderKeys(ListingOf(r), k, TRUE)
                                \cup FolderKeys(ListingOf(r), k, FALSE))
      IN \A a, b \in 1..Len(keys) : first(keys[a]) < first(keys[b]) => a < b

\* C7: albumName and artist are the trimmed text before and after the first
\* " - " of the folder name (all of the text after it); without a
\* separator they are the folder name and "Unknown Artist".
C7_AlbumNameAndArtist ==
  \A r \in Requests :
    Succeeded(r) =>
      \A a \in 1..Len(albumMap[r]) :
        LET k == albumMap[r][a].key
            v == albumMap[r][a].value
            i == IndexOf(k, " - ")
        IN IF i # 0
           THEN /\ v.albumName = Trim(SubSeq(k, 1, i - 1))
                /\ v.artist = Trim(From(k, i + 3))
           ELSE /\ v.albumName = k
                /\ v.artist = "Unknown Artist"

\* C8: no cover-like file is among the tracks of a response, and the
\* coverUrl of every album is the url of the last cover-like key of its
\* folder in the listing, null when the folder has none.
C8_CoverPrecedence ==
  \A r \in Requests :
    Succeeded(r) =>
      \A a \in 1..Len(albumMap[r]) :
        LET k      == albumMap[r][a].key
            v      == albumMap[r][a].value
            covers == FolderKeys(ListingOf(r), k, TRUE)
        IN /\ v \in {AlbumsOf(r)[n] : n \in 1..Len(AlbumsOf(r))}
           /\ \A t \in 1..Len(v.tracks), i \in 1..Len(ListingOf(r)) :
                v.tracks[t].url = ResolveUrl(ListingOf(r)[i])
                  => ~KeyInfo[ListingOf(r)[i]].isCover
           /\ v.coverUrl = IF covers = {} THEN Null
                           ELSE ResolveUrl(ListingOf(r)[LastOf(covers)])

\* C8 witness: a folder with a cover, a track and a later second cover.
C8_Witness ==
  \E r \in Requests :
    /\ Succeeded(r)
    /\ ListingOf(r) = <<"p/A - B - C/1-c.PNG", "p/A - B - C/y.m", "p/A - B - C/cover">>
    /\ AlbumsOf(r)[1].coverUrl = "d/p/A - B - C/cover"
    /\ Len(AlbumsOf(r)[1].tracks) = 1

\* C9: the tracks of every album of a response are in ascending parsed
\* track number, tracks with equal numbers in the order of their keys in
\* the listing, also after the random order values were assigned.
C9_TracksSortedStable ==
  \A r \in Requests :
    Succeeded(r) =>
      \A a \in 1..Len(AlbumsOf(r)) :
        LET tracks == AlbumsOf(r)[a].tracks
            pos(t) == KeyPosition(ListingOf(r), tracks[t].url)
            num(t) == KeyInfo[ListingOf(r)[pos(t)]].trackNumber
        IN \A i, j \in 1..Len(tracks) :
             i < j => \/ num(i) < num(j)
                      \/ num(i) = num(j) /\ pos(i) < pos(j)

\* C9 witness: the listing holds track 2 first, then two tracks of number
\* 0; the response has them as z, y, x and the first got the order 2.
C9_Witness ==
  \E r \in Requests :
    /\ Succeeded(r)
    /\ ListingOf(r) = <<"p/A - B - C/02-x.m", "p/A - B - C/0 - z.m", "p/A - B - C/y.m">>
    /\ [t \in 1..3 |-> AlbumsOf(r)[1].tracks[t].name] = <<"z", "y", "x">>
    /\ AlbumsOf(r)[1].tracks[1].order = 2

\* C10: two requests that received the same listing were answered with the
\* same albums, equal but for trackId and order, however the requests
\* interleaved, and a response holds albums of its own listing only.
C10_ListingDeterminesResponse ==
  \A r1, r2 \in Requests :
    (/\ pc[r1] = "done" /\ listResult[r1].kind = "data"
     /\ pc[r2] = "done" /\ listResult[r2].kind = "data"
     /\ listResult[r1].data = listResult[r2].data)
    => /\ Stripped(sent[r1][1]) = Stripped(sent[r2][1])
       /\ Succeeded(r1) =>
            \A a \in 1..Len(albumMap[r1]) :
              FolderKeys(ListingOf(r1), albumMap[r1][a].key, TRUE)
                \cup FolderKeys(ListingOf(r1), albumMap[r1][a].key, FALSE) # {}

=============================================================================
